---- MODULE Spec2Model ----
(***************************************************************************)
(* Gomoku (five in a row), src/gomoku.py: the GomokuGame engine            *)
(* (place_stone, check_winner, switch_player) and the console loop run().  *)
(*                                                                         *)
(* The specifications share the engine's definitions:                      *)
(*   Spec         the engine's methods called in any order on a freshly    *)
(*                constructed game;                                        *)
(*   SpecCheck    place_stone(row, col) followed by check_winner(row, col) *)
(*                on boards drawn from a bounded family of positions;      *)
(*   SpecOver     SpecCheck, with a caller that places further stones      *)
(*                after a reported Win;                                    *)
(*   SpecRun      a session driven by run() from a freshly constructed     *)
(*                game;                                                    *)
(*   SpecRunFair  sessions of SpecRun, with run() and its players making   *)
(*                progress.                                                *)
(*                                                                         *)
(* The program is single-threaded: every action is one call of a method,   *)
(* or one stretch of run() between two of its calls.                       *)
(***************************************************************************)
EXTENDS Integers, Sequences, FiniteSets, TLC

VARIABLES
    size,            \* self.size
    board,           \* self.board: board[r][c], r and c in 0..size-1
    current_player,  \* self.current_player
    moves_played,    \* self.moves_played
    pc,              \* where the caller is: in run(), the position in its loop;
                     \* calling the methods directly, the method that just
                     \* returned ("new": the constructor)
    row, col,        \* the arguments of the latest place_stone or check_winner
                     \* call: run()'s locals row and col while it uses them
    ret,             \* what place_stone returned, until its caller has used it
    signal,          \* the message that rejected the latest input: the one
                     \* place_stone printed, or run()'s for a malformed line
    result,          \* the MoveResult the latest check_winner returned
    arena            \* the cells the callers aim their moves at

vars == <<size, board, current_player, moves_played, pc, row, col, ret,
          signal, result, arena>>

fields == <<size, board, current_player, moves_played>>

----------------------------------------------------------------------------
(* Bounds of the model *)

\* how far outside the board the coordinates tried reach: -OutMargin..size-1+OutMargin
OutMargin == 1

\* board sizes explored exhaustively from construction by the engine's callers
FreshSizes == {1, 2}

----------------------------------------------------------------------------
(* Module constants, src/gomoku.py:13-15, and the literals of check_winner *)

EMPTY == "."

PLAYER_STONES == [p \in {"black", "white"} |-> IF p = "black" THEN "X" ELSE "O"]

None == "None"

\* the line length that wins (the literal of line 73)
WinLength == 5

\* the axes of line 71, in its order
directions == << <<1, 0>>, <<0, 1>>, <<1, 1>>, <<1, -1>> >>

Index(n) == 0 .. n - 1

\* create_board(size): a size x size grid of EMPTY
create_board(n) == [r \in Index(n) |-> [c \in Index(n) |-> EMPTY]]

\* MoveResult(winner, draw) with the defaults of the dataclass
MoveResult(w, d) == [winner |-> w, draw |-> d]

\* a Python list index: a negative index counts from the end of the list
PyIndex(i) == IF i < 0 THEN i + size ELSE i

\* self.board[r][c]
At(r, c) == board[PyIndex(r)][PyIndex(c)]

----------------------------------------------------------------------------
(* The engine's methods *)

\* __init__(size)
init(n) ==
    /\ size = n
    /\ board = create_board(n)
    /\ current_player = "black"
    /\ moves_played = 0

\* the object's fields as one value, and their assignment
self ==
    [size |-> size, board |-> board, current_player |-> current_player,
     moves_played |-> moves_played]

Store(s) ==
    /\ size' = s.size
    /\ board' = s.board
    /\ current_player' = s.current_player
    /\ moves_played' = s.moves_played

\* switch_player() with "white" in both branches of its conditional
switch_player_stuck ==
    [self EXCEPT !.current_player = IF @ = "black" THEN "white" ELSE "white"]

\* switch_player(): the fields it leaves
switch_player ==
    [self EXCEPT !.current_player = IF @ = "black" THEN "white" ELSE "black"]

\* the guard of line 43 without its lower bounds
in_range_upper(r, c) == r < size /\ c < size

\* the guard of line 43
in_range(r, c) == 0 <= r /\ r < size /\ 0 <= c /\ c < size

\* place_stone() counting the move before it looks at the cell
place_stone_count_first(r, c) ==
    IF ~(0 <= r /\ r < size /\ 0 <= c /\ c < size)
    THEN [ret |-> FALSE, signal |-> "OutOfBounds", self |-> self]
    ELSE IF At(r, c) # EMPTY
    THEN [ret |-> FALSE, signal |-> "Occupied",
          self |-> [self EXCEPT !.moves_played = @ + 1]]
    ELSE [ret |-> TRUE, signal |-> None,
          self |-> [self EXCEPT !.board[PyIndex(r)][PyIndex(c)] =
                                    PLAYER_STONES[current_player],
                                !.moves_played = @ + 1]]

\* place_stone() rejecting only a cell that holds the mover's own marker
place_stone_own_only(r, c) ==
    IF ~(0 <= r /\ r < size /\ 0 <= c /\ c < size)
    THEN [ret |-> FALSE, signal |-> "OutOfBounds", self |-> self]
    ELSE IF At(r, c) = PLAYER_STONES[current_player]
    THEN [ret |-> FALSE, signal |-> "Occupied", self |-> self]
    ELSE [ret |-> TRUE, signal |-> None,
          self |-> [self EXCEPT !.board[PyIndex(r)][PyIndex(c)] =
                                    PLAYER_STONES[current_player],
                                !.moves_played = @ + 1]]

\* place_stone() passing the turn itself after it has placed the stone
place_stone_and_switch(r, c) ==
    IF ~(0 <= r /\ r < size /\ 0 <= c /\ c < size)
    THEN [ret |-> FALSE, signal |-> "OutOfBounds", self |-> self]
    ELSE IF At(r, c) # EMPTY
    THEN [ret |-> FALSE, signal |-> "Occupied", self |-> self]
    ELSE [ret |-> TRUE, signal |-> None,
          self |-> [self EXCEPT !.board[PyIndex(r)][PyIndex(c)] =
                                    PLAYER_STONES[current_player],
                                !.moves_played = @ + 1,
                                !.current_player =
                                    IF @ = "black" THEN "white" ELSE "black"]]

\* place_stone(row, col): what it returns (ret), the message it prints
\* (signal) and the fields it leaves (self)
place_stone(r, c) ==
    IF ~in_range(r, c)
    THEN [ret |-> FALSE, signal |-> "OutOfBounds", self |-> self]
    ELSE IF At(r, c) # EMPTY
    THEN [ret |-> FALSE, signal |-> "Occupied", self |-> self]
    ELSE [ret |-> TRUE, signal |-> None,
          self |-> [self EXCEPT !.board[PyIndex(r)][PyIndex(c)] =
                                    PLAYER_STONES[current_player],
                                !.moves_played = @ + 1]]

\* one pass of the while loop of count(), lines 62-68: the cells matching
\* `stone` met from (r, c), not counting (r, c), stepping by (sr, sc)
RECURSIVE walk(_, _, _, _, _)
walk(stone, r, c, sr, sc) ==
    LET r2 == r + sr
        c2 == c + sc
    IN  IF 0 <= r2 /\ r2 < size /\ 0 <= c2 /\ c2 < size /\ At(r2, c2) = stone
        THEN 1 + walk(stone, r2, c2, sr, sc)
        ELSE 0

\* count() with the pass for direction -1 left out
count_forward(stone, r, c, direction_row, direction_col) ==
    1 + walk(stone, r, c, direction_row, direction_col)

\* count() with both passes starting on the placed cell, so that it is counted
\* three times
count_twice(stone, r, c, direction_row, direction_col) ==
    3 + walk(stone, r, c, direction_row, direction_col)
      + walk(stone, r, c, -direction_row, -direction_col)

\* count(direction_row, direction_col) of check_winner(r, c)
count(stone, r, c, direction_row, direction_col) ==
    1 + walk(stone, r, c, direction_row, direction_col)
      + walk(stone, r, c, -direction_row, -direction_col)

\* check_winner() testing the full board before the lines
check_winner_draw_first(r, c) ==
    LET stone == PLAYER_STONES[current_player]
    IN  IF moves_played = size * size
        THEN MoveResult(None, TRUE)
        ELSE IF \E i \in 1..Len(directions) :
               count(stone, r, c, directions[i][1], directions[i][2]) >= WinLength
        THEN MoveResult(current_player, FALSE)
        ELSE MoveResult(None, FALSE)

\* check_winner() without lines 76-77: a full board is never reported
check_winner_no_draw(r, c) ==
    LET stone == PLAYER_STONES[current_player]
    IN  IF \E i \in 1..Len(directions) :
               count(stone, r, c, directions[i][1], directions[i][2]) >= WinLength
        THEN MoveResult(current_player, FALSE)
        ELSE MoveResult(None, FALSE)

\* check_winner(row, col): the MoveResult it returns
check_winner(r, c) ==
    LET stone == PLAYER_STONES[current_player]
    IN  IF \E i \in 1..Len(directions) :
               count(stone, r, c, directions[i][1], directions[i][2]) >= WinLength
        THEN MoveResult(current_player, FALSE)
        ELSE IF moves_played = size * size
        THEN MoveResult(None, TRUE)
        ELSE MoveResult(None, FALSE)

----------------------------------------------------------------------------
(* Spec: the methods called directly, in any order, on a fresh game *)

Coord == (0 - OutMargin) .. (size - 1 + OutMargin)

AllCells(n) == Index(n) \X Index(n)

\* the caller's positions when it calls the methods directly
Direct == {"new", "place_stone", "check_winner", "switch_player"}

Init ==
    /\ \E n \in FreshSizes : init(n)
    /\ pc = "new"
    /\ row = None /\ col = None
    /\ ret = None /\ signal = None
    /\ result = None
    /\ arena = AllCells(size)

\* place_stone() of an engine that refuses every move once check_winner()
\* has reported a winner
PlaceStoneGuarded(r, c) ==
    /\ pc \in Direct
    /\ pc' = "place_stone"
    /\ row' = r /\ col' = c
    /\ IF pc = "check_winner" /\ result.winner # None
       THEN UNCHANGED fields /\ ret' = FALSE /\ signal' = "GameOver"
       ELSE \E out \in {place_stone(r, c)} :
                Store(out.self) /\ ret' = out.ret /\ signal' = out.signal
    /\ UNCHANGED <<result, arena>>

\* a call of place_stone(row, col) from outside the loop: lines 41-53
PlaceStone(r, c) ==
    /\ pc \in Direct
    /\ pc' = "place_stone"
    /\ row' = r /\ col' = c
    /\ \E out \in {place_stone(r, c)} :
           Store(out.self) /\ ret' = out.ret /\ signal' = out.signal
    /\ UNCHANGED <<result, arena>>

\* check_winner() passing the turn when it finds the game still open
CheckWinnerPassing(r, c) ==
    /\ pc \in Direct
    /\ pc' = "check_winner"
    /\ row' = r /\ col' = c
    /\ result' = check_winner(r, c)
    /\ IF result'.winner = None /\ ~result'.draw
       THEN Store(switch_player)
       ELSE UNCHANGED fields
    /\ UNCHANGED <<ret, signal, arena>>

CheckWinner(r, c) ==
    /\ pc \in Direct
    /\ pc' = "check_winner"
    /\ row' = r /\ col' = c
    /\ result' = check_winner(r, c)
    /\ UNCHANGED <<fields, ret, signal, arena>>

SwitchPlayer ==
    /\ pc \in Direct
    /\ Store(switch_player)
    /\ pc' = "switch_player"
    /\ UNCHANGED <<row, col, ret, signal, result, arena>>

Next ==
    \/ \E r \in Coord, c \in Coord : PlaceStone(r, c)
    \/ \E r \in Coord, c \in Coord : CheckWinner(r, c)
    \/ SwitchPlayer

Spec == Init /\ [][Next]_vars

----------------------------------------------------------------------------
(* SpecCheck: place_stone(row, col), then check_winner(row, col) as lines  *)
(* 108-111 call them, on positions drawn from a bounded family.  Called    *)
(* directly, the engine reaches every grid with moves_played equal to the  *)
(* number of its stones (place_stone and switch_player in a suitable       *)
(* order), so every position drawn is one the program can be in.           *)

\* board sizes on which a line of WinLength fits
CheckSizes == {5, 6}

\* the cells of the board met from (r0, c0) stepping by (dr, dc)
LineFrom(n, r0, c0, dr, dc) ==
    {<<r0 + k * dr, c0 + k * dc>> : k \in 0 .. n - 1} \cap AllCells(n)

\* the lines whose cells the family varies: an edge row, an edge column, both
\* long diagonals, and the row and the diagonal next to them
CheckLines(n) ==
    { LineFrom(n, 0, 0, 0, 1), LineFrom(n, 0, n - 1, 1, 0),
      LineFrom(n, 0, 0, 1, 1), LineFrom(n, 0, n - 1, 1, -1),
      LineFrom(n, 1, 0, 0, 1), LineFrom(n, 1, 0, 1, 1) }

\* what the cells off the varied line hold: nothing, or a filling of the board
\* in which no marker runs more than two cells along any axis
Background(kind, r, c) ==
    IF kind = "empty" THEN EMPTY
    ELSE IF (r + 2 * c) % 4 < 2 THEN "X" ELSE "O"

Position(n, line, f, kind) ==
    [r \in Index(n) |-> [c \in Index(n) |->
        IF <<r, c>> \in line THEN f[<<r, c>>] ELSE Background(kind, r, c)]]

Stones(n, b) == Cardinality({cell \in AllCells(n) : b[cell[1]][cell[2]] # EMPTY})

InitCheck ==
    /\ \E n \in CheckSizes : \E line \in CheckLines(n) :
       \E f \in [line -> {EMPTY, "X", "O"}], kind \in {"empty", "filled"} :
          /\ size = n
          /\ board = Position(n, line, f, kind)
          /\ moves_played = Stones(n, board)
          /\ arena = line
    /\ current_player \in {"black", "white"}
    /\ pc = "new"
    /\ row = None /\ col = None
    /\ ret = None /\ signal = None
    /\ result = None

NextCheck ==
    \/ \E cell \in arena : pc = "new" /\ PlaceStone(cell[1], cell[2])
    \/ pc = "place_stone" /\ ret = TRUE /\ CheckWinner(row, col)

SpecCheck == InitCheck /\ [][NextCheck]_vars

----------------------------------------------------------------------------
(* SpecOver: the positions of SpecCheck, and a caller that goes on placing   *)
(* stones after check_winner has reported a winner                           *)

\* place_stone(cell) called although the last check_winner reported a winner
PlaceAfterWin ==
    \E cell \in AllCells(size) :
        /\ pc = "check_winner"
        /\ result.winner # None
        /\ PlaceStone(cell[1], cell[2])

NextOver ==
    \/ NextCheck
    \/ PlaceAfterWin

SpecOver == InitCheck /\ [][NextOver]_vars

----------------------------------------------------------------------------
(* SpecRun: a session driven by run(), lines 88-121 *)

\* board sizes of the sessions: the small boards in full, and one on which a
\* line of WinLength fits
RunSizes == {1, 2, 5}

\* the cells the two players aim at during a session: every cell of a small
\* board; on a board where a line of five fits, a line and cells beside it:
\* the top row with four cells of the next row, or the long anti-diagonal
\* with the diagonal next to it and the corner (0, 0)
Arenas(n) ==
    IF n < WinLength THEN {AllCells(n)}
    ELSE { LineFrom(n, 0, 0, 0, 1) \cup LineFrom(n - 1, 1, 0, 0, 1),
           LineFrom(n, 0, n - 1, 1, -1) \cup LineFrom(n, 0, n - 2, 1, -1)
               \cup {<<0, 0>>} }

\* A line typed at the prompt, after strip(): its whitespace-separated tokens.
\* The decimal literals int() accepts, by value:
NumeralTable ==
    << "-2", "-1", "0", "1", "2", "3", "4", "5", "6", "7", "8", "9" >>

Numeral(i) == NumeralTable[i + 3]

Literals == -2 .. 9

\* str.lower() on the words typed
lower(w) ==
    CASE w = "QUIT" -> "quit" [] w = "Q" -> "q" [] w = "Exit" -> "exit"
      [] OTHER -> w

\* line 96: the whole stripped, lowered line is an exit token
is_exit(line) == Len(line) = 1 /\ lower(line[1]) \in {"quit", "q", "exit"}

\* int(token): raises ValueError unless the token is a decimal literal
IntOf == [tok \in {Numeral(i) : i \in Literals} |->
             CHOOSE i \in Literals : Numeral(i) = tok]

is_int(tok) == tok \in DOMAIN IntOf
int(tok) == IntOf[tok]

\* lines 101-103 unpacking only the first two tokens of the line
parses_prefix(line) ==
    Len(line) >= 2 /\ is_int(lower(line[1])) /\ is_int(lower(line[2]))

\* lines 101-103 raise no ValueError: exactly two tokens, both integers
parses(line) == Len(line) = 2 /\ is_int(lower(line[1])) /\ is_int(lower(line[2]))

\* coordinates off the board: one or both of row and column out of range
OutCells ==
    LET out == Coord \ Index(size)
    IN  UNION { {<<o, 0>>, <<0, o>>, <<o, o>>} : o \in out }

\* the lines typed that carry a move: 1-indexed coordinates of the arena's
\* cells and of cells off the board
MoveLines ==
    { <<Numeral(cell[1] + 1), Numeral(cell[2] + 1)>> : cell \in arena \cup OutCells }

\* the other lines typed: exit tokens, and lines that are no two integers
OtherLines ==
    { <<"quit">>, <<"q">>, <<"exit">>, <<"QUIT">>,
      <<>>, <<"x">>, <<"1">>, <<"1", "x">>, <<"1", "1", "1">>, <<"quit", "1">> }

InitRun ==
    /\ \E n \in RunSizes : init(n) /\ arena \in Arenas(n)
    /\ pc = "input"
    /\ row = None /\ col = None
    /\ ret = None /\ signal = None
    /\ result = None

\* lines 96-98: an exit token ends the session
RunQuit(line) ==
    /\ pc = "input"
    /\ is_exit(line)
    /\ pc' = "quit"
    /\ signal' = None
    /\ UNCHANGED <<fields, row, col, ret, result, arena>>

\* lines 100-106: the line is no two integers; prompt again
RunMalformed(line) ==
    /\ pc = "input"
    /\ ~is_exit(line)
    /\ ~parses(line)
    /\ signal' = "Malformed"
    /\ pc' = "input"
    /\ UNCHANGED <<fields, row, col, ret, result, arena>>

\* lines 102-103 without the translation to 0-indexed cells
move_as_typed(line) == <<int(lower(line[1])), int(lower(line[2]))>>

\* the move a line that parses carries: lines 102-103
move(line) == <<int(lower(line[1])) - 1, int(lower(line[2])) - 1>>

\* lines 100-109 and 121: a rejected move that hands the turn over
RunRejectedPassing(line) ==
    /\ pc = "input"
    /\ ~is_exit(line)
    /\ parses(line)
    /\ \E m \in {move(line)} : \E out \in {place_stone(m[1], m[2])} :
           /\ ~out.ret
           /\ Store([out.self EXCEPT !.current_player =
                         IF @ = "black" THEN "white" ELSE "black"])
           /\ signal' = out.signal
    /\ pc' = "input"
    /\ UNCHANGED <<row, col, ret, result, arena>>

\* lines 100-109: the line parses and place_stone(row, col) rejects the move;
\* run() prompts again
RunRejected(line) ==
    /\ pc = "input"
    /\ ~is_exit(line)
    /\ parses(line)
    /\ \E m \in {move(line)} : \E out \in {place_stone(m[1], m[2])} :
           ~out.ret /\ Store(out.self) /\ signal' = out.signal
    /\ pc' = "input"
    /\ UNCHANGED <<row, col, ret, result, arena>>

\* lines 100-109: the line parses and place_stone(row, col) accepts the move
RunPlaced(line) ==
    /\ pc = "input"
    /\ ~is_exit(line)
    /\ parses(line)
    /\ \E m \in {move(line)} : \E out \in {place_stone(m[1], m[2])} :
           /\ out.ret /\ Store(out.self) /\ signal' = out.signal
           /\ row' = m[1] /\ col' = m[2]
    /\ pc' = "check"
    /\ UNCHANGED <<ret, result, arena>>

\* line 111
RunCheck ==
    /\ pc = "check"
    /\ result' = check_winner(row, col)
    /\ pc' = "branch"
    /\ UNCHANGED <<fields, row, col, ret, signal, arena>>

\* lines 114-116 without the break
RunWinNoBreak ==
    /\ pc = "branch"
    /\ result.winner # None
    /\ pc' = "input"
    /\ UNCHANGED <<fields, row, col, ret, signal, result, arena>>

\* lines 114-116
RunWin ==
    /\ pc = "branch"
    /\ result.winner # None
    /\ pc' = "won"
    /\ UNCHANGED <<fields, row, col, ret, signal, result, arena>>

\* lines 117-119
RunDraw ==
    /\ pc = "branch"
    /\ result.winner = None
    /\ result.draw
    /\ pc' = "drawn"
    /\ UNCHANGED <<fields, row, col, ret, signal, result, arena>>

\* line 121, and back to the prompt: row, col and result are not read again
RunSwitch ==
    /\ pc = "branch"
    /\ result.winner = None
    /\ ~result.draw
    /\ Store(switch_player)
    /\ pc' = "input"
    /\ row' = None /\ col' = None
    /\ UNCHANGED <<ret, signal, result, arena>>

NextRun ==
    \/ \E line \in OtherLines : RunQuit(line)
    \/ \E line \in OtherLines : RunMalformed(line)
    \/ \E line \in MoveLines : RunRejected(line)
    \/ \E line \in MoveLines : RunPlaced(line)
    \/ RunCheck
    \/ RunWin
    \/ RunDraw
    \/ RunSwitch

SpecRun == InitRun /\ [][NextRun]_vars

\* the players do what ends a turn or the session: a move on an empty cell of
\* the board, or an exit token
Progress ==
    \/ \E line \in MoveLines : RunPlaced(line)
    \/ \E line \in OtherLines : RunQuit(line)

\* the statements of one iteration after place_stone, lines 111-121
Rest == RunCheck \/ RunWin \/ RunDraw \/ RunSwitch

\* the sessions followed to their end: those of the small boards, and on the
\* large board those played on the top row and the cells below it
InitRunFair ==
    /\ InitRun
    /\ arena = IF size < WinLength THEN AllCells(size)
               ELSE LineFrom(size, 0, 0, 0, 1) \cup LineFrom(size - 1, 1, 0, 0, 1)

\* run() goes on from one statement to the next, and the players, asked again
\* and again, do not answer with rejected lines for ever
SpecRunFair ==
    InitRunFair /\ [][NextRun]_vars /\ WF_vars(Rest) /\ WF_vars(Progress)

----------------------------------------------------------------------------
(* What the claims speak of, stated on the grid alone *)

\* the marker of the player to move
Marker == IF current_player = "black" THEN "X" ELSE "O"

Opponent == IF current_player = "black" THEN "O" ELSE "X"

\* (r, c) is a cell of the board and holds `stone`
Holds(r, c, stone) ==
    r \in Index(size) /\ c \in Index(size) /\ board[r][c] = stone

Axes == {<<1, 0>>, <<0, 1>>, <<1, 1>>, <<1, -1>>}

\* five cells in a row along axis d, (r, c) among them, all hold `stone`: the
\* contiguous run of `stone` through (r, c) along d is at least five long
FiveThrough(r, c, stone, d) ==
    \E k \in 0 .. 4 : \A j \in 0 .. 4 :
        Holds(r + (j - k) * d[1], c + (j - k) * d[2], stone)

LineOfFive(r, c, stone) == \E d \in Axes : FiveThrough(r, c, stone, d)

Full == \A cell \in AllCells(size) : board[cell[1]][cell[2]] # EMPTY

\* check_winner(row, col) has just returned, called right after place_stone(row,
\* col) accepted the move (under SpecCheck no other call of it is made)
AfterCheck == pc = "check_winner" /\ ret = TRUE

----------------------------------------------------------------------------
(* C1: win completeness.  When check_winner(row, col) follows a successful *)
(* place_stone(row, col) and the mover's marker runs five or more cells    *)
(* through (row, col) along one of the four axes, the result is a Win for  *)
(* the mover: winner = current_player, draw = FALSE.                       *)
WinCompleteness ==
    (AfterCheck /\ LineOfFive(row, col, Marker))
        => result = [winner |-> current_player, draw |-> FALSE]

\* a win by a stone placed in the middle of its run, on the axis (1, -1)
WinCompletenessWitness ==
    /\ AfterCheck
    /\ FiveThrough(row, col, Marker, <<1, -1>>)
    /\ Holds(row + 1, col - 1, Marker)
    /\ Holds(row - 1, col + 1, Marker)
    /\ result.winner = current_player

(* C2: no false positive.  When every axis through (row, col) carries a    *)
(* run of the mover's marker shorter than five, check_winner reports no    *)
(* Win: a four blocked at both ends is no Win, and the count neither wraps *)
(* round an edge nor passes an empty or opposing cell.                     *)
NoFalsePositive ==
    (AfterCheck /\ ~LineOfFive(row, col, Marker)) => result.winner = None

\* a four of the mover in a row, the opponent's marker at both ends, no Win
NoFalsePositiveWitness ==
    /\ AfterCheck
    /\ \E d \in Axes : \E k \in 0 .. 3 :
          /\ \A j \in 0 .. 3 :
                Holds(row + (j - k) * d[1], col + (j - k) * d[2], Marker)
          /\ Holds(row - (k + 1) * d[1], col - (k + 1) * d[2], Opponent)
          /\ Holds(row + (4 - k) * d[1], col + (4 - k) * d[2], Opponent)
    /\ result.winner = None

(* C3: draw condition.  After a successful placement check_winner returns  *)
(* Draw exactly when no axis through the cell reaches five and             *)
(* moves_played = N*N, Ongoing exactly when no axis does and               *)
(* moves_played < N*N; a placement that fills the board and completes a    *)
(* five is a Win; and no Draw is reported while a cell is empty.           *)
DrawCondition ==
    AfterCheck =>
        /\ result = [winner |-> None, draw |-> TRUE]
              <=> (~LineOfFive(row, col, Marker) /\ moves_played = size * size)
        /\ result = [winner |-> None, draw |-> FALSE]
              <=> (~LineOfFive(row, col, Marker) /\ moves_played < size * size)
        /\ (Full /\ LineOfFive(row, col, Marker)) => result.winner = current_player
        /\ result.draw => Full

\* a Draw reported on a full board large enough to hold a five
DrawConditionWitness ==
    AfterCheck /\ size >= 5 /\ Full /\ result = [winner |-> None, draw |-> TRUE]

\* the last empty cell completes a five: a Win on a full board
LastCellWin ==
    AfterCheck /\ Full /\ result.winner = current_player

(* C4: occupancy invariant.  In every state reached from a fresh game by   *)
(* place_stone (accepted or rejected), check_winner and switch_player      *)
(* calls, moves_played is the number of cells that are not EMPTY.          *)
OccupancyInvariant == moves_played = Stones(size, board)

\* a rejected placement on a board that holds three stones
OccupancyWitness ==
    pc = "place_stone" /\ ret = FALSE /\ signal = "Occupied" /\ moves_played = 3

(* C5: bounds rejection.  place_stone(row, col) with row < 0, row >= N,    *)
(* col < 0 or col >= N fails with OutOfBounds and changes neither the      *)
(* board nor moves_played nor current_player; a negative coordinate is not *)
(* taken as an index from the end of the grid.                             *)
BoundsRejection ==
    [][\A r \in Coord, c \in Coord :
          ((r < 0 \/ r >= size \/ c < 0 \/ c >= size) /\ PlaceStone(r, c))
              => /\ ret' = FALSE
                 /\ signal' = "OutOfBounds"
                 /\ board' = board
                 /\ moves_played' = moves_played
                 /\ current_player' = current_player]_vars

\* place_stone(-1, 0) rejected while the cell an index from the end would
\* name, (N-1, 0), is empty
BoundsRejectionWitness ==
    /\ pc = "place_stone"
    /\ row = -1 /\ col = 0
    /\ ret = FALSE /\ signal = "OutOfBounds"
    /\ moves_played > 0
    /\ board[size - 1][0] = EMPTY

(* C6: occupied rejection.  place_stone on a cell of the board that is not *)
(* EMPTY, whichever marker it holds, fails with Occupied and changes       *)
(* neither the board nor moves_played nor current_player.                  *)
OccupiedRejection ==
    [][\A r \in Index(size), c \in Index(size) :
          (board[r][c] # EMPTY /\ PlaceStone(r, c))
              => /\ ret' = FALSE
                 /\ signal' = "Occupied"
                 /\ board' = board
                 /\ moves_played' = moves_played
                 /\ current_player' = current_player]_vars

\* a placement rejected on a cell that holds the opponent's marker
OccupiedRejectionWitness ==
    /\ pc = "place_stone"
    /\ ret = FALSE /\ signal = "Occupied"
    /\ board[row][col] = Opponent

(* C7: successful placement.  place_stone on an EMPTY cell of the board    *)
(* returns success, writes the current player's marker (X for black, O for *)
(* white) into that cell, adds 1 to moves_played, and leaves every other   *)
(* cell and current_player as they were.                                   *)
PlacementEffect ==
    [][\A r \in Index(size), c \in Index(size) :
          (board[r][c] = EMPTY /\ PlaceStone(r, c))
              => /\ ret' = TRUE
                 /\ board'[r][c] = Marker
                 /\ moves_played' = moves_played + 1
                 /\ \A cell \in AllCells(size) \ {<<r, c>>} :
                       board'[cell[1]][cell[2]] = board[cell[1]][cell[2]]
                 /\ DOMAIN board' = DOMAIN board
                 /\ current_player' = current_player]_vars

\* white has just placed an O, the second stone or a later one
PlacementEffectWitness ==
    /\ pc = "place_stone"
    /\ ret = TRUE
    /\ current_player = "white"
    /\ board[row][col] = "O"
    /\ moves_played >= 2

(* C8: turn alternation.  In a session driven by run() the stones placed   *)
(* belong to the two players in turn, Black first (the k-th stone is X     *)
(* exactly when k is odd), and the turn that ends without Win or Draw      *)
(* leaves current_player changed, to the player who did not place it.      *)
TurnAlternation ==
    [][/\ (pc = "input" /\ pc' = "check")
            => board'[row'][col'] =
                  IF Stones(size', board') % 2 = 1 THEN "X" ELSE "O"
       /\ (pc = "branch" /\ pc' = "input")
            => /\ current_player' # current_player
               /\ board[row][col] # IF current_player' = "black" THEN "X" ELSE "O"]_vars

\* the prompt after three placements on the large board: White is to move
TurnAlternationWitness ==
    pc = "input" /\ size = 5 /\ moves_played = 3 /\ current_player = "white"

(* C9: terminal phase.  In a session driven by run(), once check_winner    *)
(* has reported Win or Draw the loop only ends: place_stone and            *)
(* switch_player are not called again, and the board, moves_played and     *)
(* current_player stay as they are.                                        *)
Reported ==
    pc \in {"branch", "won", "drawn"} /\ (result.winner # None \/ result.draw)

TerminalPhase ==
    [][Reported => /\ pc' \in {"won", "drawn"}
                   /\ result' = result
                   /\ board' = board
                   /\ moves_played' = moves_played
                   /\ current_player' = current_player]_vars

\* the session has ended on a Win with cells still empty
TerminalPhaseWitness == pc = "won" /\ ~Full

(* C10: check_winner is a pure read.  For every state and every (row, col) *)
(* it leaves the board, moves_played and current_player as they are, and a *)
(* second call with the same arguments returns what the first returned.    *)
PureRead ==
    [][\A r \in Coord, c \in Coord :
          CheckWinner(r, c)
              => /\ board' = board
                 /\ moves_played' = moves_played
                 /\ current_player' = current_player
                 /\ (pc = "check_winner" /\ row = r /\ col = c)
                       => result' = result]_vars

\* check_winner has returned Draw on a full board
PureReadWitness ==
    pc = "check_winner" /\ Full /\ result = [winner |-> None, draw |-> TRUE]

\* the words run() takes as a request to leave, in any case
ExitWords == {"quit", "q", "exit", "QUIT", "Q", "Exit"}

\* the decimal literals of the integers typed
Numerals == {Numeral(i) : i \in Literals}

\* the line typed is two tokens, each the decimal literal of an integer
TwoIntegers(line) ==
    Len(line) = 2 /\ line[1] \in Numerals /\ line[2] \in Numerals

\* a line that is neither an exit token nor a move
MalformedLine(line) ==
    /\ ~(Len(line) = 1 /\ line[1] \in ExitWords)
    /\ ~TwoIntegers(line)

(* C11: malformed input.  A line typed at the prompt that is no exit token *)
(* and is not exactly two integers takes neither the exit of lines 96-98   *)
(* nor the call of place_stone: it is rejected and the prompt comes again; *)
(* no stone is placed, no outcome is checked, the turn is not passed; the  *)
(* board, moves_played and current_player stay as they are and the same    *)
(* player is asked again.                                                  *)
MalformedInput ==
    /\ [](pc = "input" =>
            \A line \in OtherLines \cup MoveLines :
               MalformedLine(line) => ~is_exit(line) /\ ~parses(line))
    /\ [][(pc = "input" /\ signal' = "Malformed")
               => /\ pc' = "input"
                  /\ board' = board
                  /\ moves_played' = moves_played
                  /\ current_player' = current_player
                  /\ result' = result
                  /\ row' = row /\ col' = col]_vars

\* White, with three stones on the large board, has typed a malformed line and
\* is asked again
MalformedInputWitness ==
    /\ pc = "input"
    /\ signal = "Malformed"
    /\ size = 5
    /\ moves_played = 3
    /\ current_player = "white"

----------------------------------------------------------------------------
\* the two players, and the one who is not p
Players == {"black", "white"}

Other(p) == IF p = "black" THEN "white" ELSE "black"

(* C12: switch_player flips the turn.  current_player is always black or   *)
(* white; a call of switch_player leaves it on the other player, so that a *)
(* second call in a row brings back the player of before the first; the    *)
(* board and moves_played stay as they are.                                *)
SwitchPlayerFlips ==
    [][/\ current_player' \in Players
       /\ SwitchPlayer
            => /\ current_player' = Other(current_player)
               /\ Other(current_player') = current_player
               /\ board' = board
               /\ moves_played' = moves_played]_vars

\* two calls of switch_player have brought the turn back to Black, with a
\* stone on the board
SwitchPlayerFlipsWitness ==
    /\ pc = "switch_player"
    /\ current_player = "black"
    /\ moves_played = 1
    /\ \E cell \in AllCells(size) : board[cell[1]][cell[2]] = "O"

----------------------------------------------------------------------------
\* the line a player types for the cell (r, c): its 1-indexed coordinates
Typed(r, c) == <<Numeral(r + 1), Numeral(c + 1)>>

\* place_stone(r, c) has to refuse: (r, c) is off the board or holds a stone
Refused(r, c) ==
    \/ r \notin Index(size)
    \/ c \notin Index(size)
    \/ board[r][c] # EMPTY

(* C13: a rejected placement does not consume the turn.  When the move     *)
(* typed at the prompt is off the board or on an occupied cell, place_stone *)
(* refuses it and run() goes back to the prompt: no outcome check and no   *)
(* switch_player follow, the board and the counters are as before, the     *)
(* same player is asked again, and the next stone to land on the board is  *)
(* that player's.                                                          *)
RejectedKeepsTurn ==
    /\ [](pc = "input" =>
            \A cell \in arena \cup OutCells :
               Refused(cell[1], cell[2]) =>
                  LET line == Typed(cell[1], cell[2])
                      out == place_stone(move(line)[1], move(line)[2])
                  IN  /\ ~is_exit(line) /\ parses(line)
                      /\ ~out.ret
                      /\ out.signal \in {"OutOfBounds", "Occupied"}
                      /\ out.self = self)
    /\ [][/\ (pc = "input" /\ pc' = "check") => ~Refused(row', col')
          /\ (pc = "input" /\ signal' \in {"OutOfBounds", "Occupied"})
               => /\ pc' = "input"
                  /\ current_player' = current_player
                  /\ board' = board
                  /\ moves_played' = moves_played
                  /\ result' = result
          /\ (pc = "input" /\ signal \in {"OutOfBounds", "Occupied"}
                           /\ pc' = "check")
               => board'[row'][col'] = Marker]_vars

\* White has been refused an occupied cell and is asked again, the board
\* holding as many O as it did when White was first asked
RejectedKeepsTurnWitness ==
    /\ pc = "input"
    /\ signal = "Occupied"
    /\ size = 5
    /\ current_player = "white"
    /\ moves_played = 3

----------------------------------------------------------------------------
\* the marker of player p
MarkerOf(p) == IF p = "black" THEN "X" ELSE "O"

(* C14: check_winner counts the marker of the player who has just moved.   *)
(* When run() calls check_winner(row, col) right after place_stone(row,    *)
(* col) accepted the move, before any switch_player, the marker of         *)
(* current_player, which is the one counted, is the marker on (row, col);  *)
(* and a winner reported is the player whose stone lies on (row, col).     *)
CheckUsesMover ==
    /\ pc = "check" => board[row][col] = MarkerOf(current_player)
    /\ (pc \in {"branch", "won"} /\ result.winner # None)
          => /\ result.winner \in Players
             /\ board[row][col] = MarkerOf(result.winner)
             /\ result.winner = current_player

\* the session has ended on a Win for White, reported on White's last stone
CheckUsesMoverWitness ==
    /\ pc = "won"
    /\ result.winner = "white"
    /\ board[row][col] = "O"
    /\ moves_played = 10

----------------------------------------------------------------------------
(* C15: the engine does not enforce the terminal phase.  When place_stone  *)
(* is called directly after check_winner has reported a Win, on a board    *)
(* not yet full, a placement on an empty cell of the board still succeeds: *)
(* it returns True, writes the marker of current_player and counts the     *)
(* move.  Nothing but run()'s break keeps stones off a finished game.      *)
PlacesAfterWin ==
    [][\A r \in Index(size), c \in Index(size) :
          (/\ pc = "check_winner"
           /\ result.winner # None
           /\ board[r][c] = EMPTY
           /\ PlaceStone(r, c))
              => /\ ret' = TRUE
                 /\ board'[r][c] = Marker
                 /\ moves_played' = moves_played + 1
                 /\ current_player' = current_player]_vars

\* a stone has been placed, away from the line the position was drawn on, on a
\* board that already holds the winner's five on that line
PlacesAfterWinWitness ==
    /\ pc = "place_stone"
    /\ ret = TRUE
    /\ <<row, col>> \notin arena
    /\ board[row][col] = Marker
    /\ \E cell \in arena : LineOfFive(cell[1], cell[2], Marker)

----------------------------------------------------------------------------
(* C16: coordinate translation.  The move typed as the 1-indexed pair      *)
(* (r, c) with both numbers in 1..size is aimed at the cell (r-1, c-1)     *)
(* and at no other: if a stone lands, it lands there.  A move typed with   *)
(* r or c outside 1..size (0 and the negative numbers among them) is       *)
(* rejected as out of bounds and changes no cell.                          *)
CoordinateTranslation ==
    /\ [](pc = "input" =>
            \A r \in Literals, c \in Literals :
               \A line \in {<<Numeral(r), Numeral(c)>>} :
                  /\ ~is_exit(line) /\ parses(line)
                  /\ move(line) = <<r - 1, c - 1>>
                  /\ \A out \in {place_stone(r - 1, c - 1)} :
                        IF r \in 1 .. size /\ c \in 1 .. size
                        THEN /\ out.signal # "OutOfBounds"
                             /\ out.self.board =
                                   IF out.ret
                                   THEN [board EXCEPT ![r - 1][c - 1] = Marker]
                                   ELSE board
                        ELSE /\ ~out.ret
                             /\ out.signal = "OutOfBounds"
                             /\ out.self = self)
    /\ [][/\ (pc = "input" /\ pc' = "check")
               => /\ row' \in Index(size) /\ col' \in Index(size)
                  /\ board[row'][col'] = EMPTY
                  /\ board'[row'][col'] = Marker
                  /\ \A cell \in AllCells(size) :
                        cell # <<row', col'>> =>
                           board'[cell[1]][cell[2]] = board[cell[1]][cell[2]]
          /\ (pc = "input" /\ signal' = "OutOfBounds")
               => pc' = "input" /\ board' = board
                                /\ moves_played' = moves_played]_vars

\* the move typed as "5 1" has put White's stone on the cell (4, 0)
CoordinateTranslationWitness ==
    /\ pc = "check"
    /\ size = 5
    /\ row = 4 /\ col = 0
    /\ board[4][0] = "O"

----------------------------------------------------------------------------
\* the cells on which the board after the step differs from the board before
Changed ==
    {cell \in AllCells(size) : board'[cell[1]][cell[2]] # board[cell[1]][cell[2]]}

(* C17: board monotonicity.  Across every operation of the engine the grid *)
(* stays size x size; a cell that holds a stone keeps that stone, never    *)
(* changing marker nor going back to empty; at most one cell changes per   *)
(* operation; moves_played never decreases and never exceeds size * size.  *)
BoardMonotone ==
    [][/\ size' = size
       /\ DOMAIN board' = Index(size)
       /\ \A r \in Index(size) : DOMAIN board'[r] = Index(size)
       /\ \A cell \in AllCells(size) :
             board[cell[1]][cell[2]] # EMPTY
                => board'[cell[1]][cell[2]] = board[cell[1]][cell[2]]
       /\ Cardinality(Changed) <= 1
       /\ moves_played' >= moves_played
       /\ moves_played' <= size * size]_vars

\* place_stone has been refused on a full board of four cells, which holds
\* its four stones still
BoardMonotoneWitness ==
    /\ pc = "place_stone"
    /\ ret = FALSE
    /\ size = 2
    /\ Full
    /\ moves_played = 4

----------------------------------------------------------------------------
\* five cells in a row from `cell` along axis d all hold `stone`
FiveFrom(cell, d, stone) ==
    \A j \in 0 .. 4 : Holds(cell[1] + j * d[1], cell[2] + j * d[2], stone)

\* the board holds, somewhere and along some axis, five or more of `stone`
\* in a row
HasFive(stone) ==
    \E cell \in AllCells(size), d \in Axes : FiveFrom(cell, d, stone)

(* C18: checking the lines through the last stone is enough.  In a session *)
(* driven by run(), whenever the loop waits for the next move the whole    *)
(* board holds no five or more in a row of either marker along any of the  *)
(* four axes; and when a Win is reported the player who lost has no five   *)
(* in a row on the board.                                                  *)
LocalCheckSuffices ==
    /\ pc = "input" => ~HasFive("X") /\ ~HasFive("O")
    /\ (pc \in {"branch", "won"} /\ result.winner # None)
          => ~HasFive(MarkerOf(Other(result.winner)))

\* the loop waits for the tenth move on the large board: nine stones, among
\* them four X in a row, and no five
LocalCheckSufficesWitness ==
    /\ pc = "input"
    /\ size = 5
    /\ moves_played = 9
    /\ \E cell \in AllCells(size), d \in Axes :
          \A j \in 0 .. 3 : Holds(cell[1] + j * d[1], cell[2] + j * d[2], "X")

----------------------------------------------------------------------------
\* the number of cells of the board that hold `stone`
StonesOf(stone) ==
    Cardinality({cell \in AllCells(size) : board[cell[1]][cell[2]] = stone})

(* C19: turn and stone parity.  In a session driven by run(), at every     *)
(* prompt current_player is black exactly when moves_played is even and    *)
(* white when it is odd; and the number of X on the board less the number  *)
(* of O is always 0 or 1.                                                  *)
TurnParity ==
    /\ pc = "input" =>
          current_player = (IF moves_played % 2 = 0 THEN "black" ELSE "white")
    /\ StonesOf("X") - StonesOf("O") \in {0, 1}
    /\ pc = "input" => StonesOf("X") + StonesOf("O") = moves_played

\* White is asked for the sixth stone: three X and two O lie on the board
TurnParityWitness ==
    /\ pc = "input"
    /\ current_player = "white"
    /\ moves_played = 5
    /\ StonesOf("X") = 3
    /\ StonesOf("O") = 2

----------------------------------------------------------------------------
\* run() has left its loop: by a Win, by a Draw, or on an exit token
Ended == pc \in {"won", "drawn", "quit"}

(* C20: the session terminates.  If the players keep supplying, sooner or  *)
(* later, a move on an empty cell of the board or an exit token, the loop  *)
(* of run() ends, with a Win, a Draw or on the exit token; no more than    *)
(* size * size stones are ever placed; and the loop never waits for a move *)
(* on a board that is completely full.                                     *)
Terminates ==
    /\ <>Ended
    /\ [](moves_played <= size * size)
    /\ [](pc = "input" => ~Full)

\* the session has ended on a Draw with the last of the four cells filled
TerminatesWitness ==
    /\ pc = "drawn"
    /\ size = 2
    /\ moves_played = size * size
    /\ Full

====
